---- MODULE Spec2Model ----
(***************************************************************************)
(* State-machine model of src/main.py: the daily batch run that groups the *)
(* input spreadsheets by the date in their file name, merges each date     *)
(* group into one column of the accumulated table, sorts the columns,      *)
(* saves the table, and optionally pushes a summary to the webhook.        *)
(*                                                                         *)
(* Text is modelled as a sequence of one-character strings, so that the    *)
(* regular-expression search, the slicing, the extension test and the      *)
(* substring test of the source are computed character by character.       *)
(* The module is ASCII only: the marker of a Shenzhen file name (the two   *)
(* characters tested at main.py:79 and main.py:123) is written "S","Z",    *)
(* and a Shanghai file name starts with "S","H".                           *)
(***************************************************************************)
EXTENDS Integers, Sequences, FiniteSets, TLC

VARIABLES
    etf_config,     \* config/<template>.xlsx exists                 (main.py:13)
    etf_cwd,        \* ./<template>.xlsx exists, the fallback path   (main.py:208)
    cfg,            \* state of config.json                          (main.py:20)
    input_dir,      \* NoDir, or the listing of input/: a sequence of files
    output_file,    \* NoFile, or the persisted accumulated workbook (main.py:14)
    pc,             \* position of the run in the __main__ block
    push_enabled,   \* main.py:204
    df_result,      \* the table in memory                           (main.py:218)
    grouped_files,  \* main.py:224
    gi,             \* index of the next date group of the loop at main.py:230
    saved,          \* the run has written output_file               (main.py:236)
    summary,        \* main.py:244-251
    sent,           \* calls of requests.post in this run            (main.py:197)
    notify_result,  \* outcome of the last call of send_to_feishu
    rerun,          \* history: no input file changed since the previous save
    same_input,     \* history: input/ untouched since the last save
    filename,       \* argument of extract_date_from_filename (SpecExtract)
    extracted       \* its result (SpecExtract)

vars == << etf_config, etf_cwd, cfg, input_dir, output_file, pc, push_enabled,
           df_result, grouped_files, gi, saved, summary, sent, notify_result,
           rerun, same_input, filename, extracted >>

----------------------------------------------------------------------------
(* Text *)

Digits == {"0", "1", "2", "3", "4", "5", "6", "7", "8", "9"}

\* Code-point order of the characters a column name can hold ("/" is 47,
\* the digits are 48..57): the order Python's sorted() uses on str.
CharOrder == <<"/", "0", "1", "2", "3", "4", "5", "6", "7", "8", "9">>

Ord(c) == CHOOSE i \in 1..Len(CharOrder) : CharOrder[i] = c

\* a < b for two strings, as Python compares str.
RECURSIVE StrLess(_, _)
StrLess(a, b) ==
    IF b = <<>> THEN FALSE
    ELSE IF a = <<>> THEN TRUE
    ELSE IF Head(a) = Head(b) THEN StrLess(Tail(a), Tail(b))
    ELSE Ord(Head(a)) < Ord(Head(b))

\* str.lower() on the letters of the model's alphabet.
LowerChar(c) ==
    CASE c = "C" -> "c"
      [] c = "H" -> "h"
      [] c = "L" -> "l"
      [] c = "S" -> "s"
      [] c = "V" -> "v"
      [] c = "X" -> "x"
      [] c = "Z" -> "z"
      [] OTHER -> c

Lower(s) == [i \in 1..Len(s) |-> LowerChar(s[i])]

\* s.endswith(suffix)
EndsWith(s, suffix) ==
    /\ Len(suffix) <= Len(s)
    /\ SubSeq(s, Len(s) - Len(suffix) + 1, Len(s)) = suffix

\* sub in s
Contains(s, sub) ==
    \E p \in 1..(Len(s) + 1) :
        /\ p + Len(sub) - 1 <= Len(s)
        /\ SubSeq(s, p, p + Len(sub) - 1) = sub

\* os.path.basename: what follows the last "/".
Basename(path) ==
    LET slashes == {p \in 1..Len(path) : path[p] = "/"}
    IN  IF slashes = {} THEN path
        ELSE LET last == CHOOSE p \in slashes : \A q \in slashes : q <= p
             IN  SubSeq(path, last + 1, Len(path))

\* os.path.join(dir, name) for a relative name.
PathJoin(dir, name) == dir \o <<"/">> \o name

INPUT_DIR == <<"i", "n", "p", "u", "t">>

----------------------------------------------------------------------------
(* extract_date_from_filename *)

\* The value returned for "no date"; like None it is false in a condition.
None == <<>>

\* The number of digits of the pattern \d{8}.
DateDigits == 8

\* re.search(r"(\d{8})", s): the leftmost position at which DateDigits
\* digits follow one another, 0 if there is none.
AllDigitsAt_m(s, p) ==
    /\ p + DateDigits - 1 <= Len(s)
    /\ \A k \in 0..(DateDigits - 1) : s[p + k] \in Digits
    /\ (p = 1 \/ s[p - 1] \notin Digits)
    /\ (p + DateDigits > Len(s) \/ s[p + DateDigits] \notin Digits)

AllDigitsAt(s, p) ==
    /\ p + DateDigits - 1 <= Len(s)
    /\ \A k \in 0..(DateDigits - 1) : s[p + k] \in Digits

ReSearch(s) ==
    LET hits == {p \in 1..Len(s) : AllDigitsAt(s, p)}
    IN  IF hits = {} THEN 0
        ELSE CHOOSE p \in hits : \A q \in hits : p <= q

extract_date_from_filename(name) ==
    LET basename == Basename(name)
        m == ReSearch(basename)
    IN  IF m = 0 THEN None
        ELSE LET date_str == SubSeq(basename, m, m + DateDigits - 1)
             IN  SubSeq(date_str, 1, 4) \o <<"/">> \o SubSeq(date_str, 5, 6)
                     \o <<"/">> \o SubSeq(date_str, 7, 8)

----------------------------------------------------------------------------
(* Cells, files and tables *)

\* Cells are integers: a code or a rate is a natural number, and the values
\* that are not numbers are the negative numbers below.
NA == -1                \* pd.NA of an Int64 column
NaN == -2               \* the missing value of a float or object column
Empty == -3             \* an empty cell of a workbook
NonNumeric == -4        \* a cell that pd.to_numeric cannot parse

IsNull(v) == v \in {NA, NaN, Empty}

\* A rate cell of an input file holds a decimal number with two decimals,
\* written here as the integer number of hundredths (85 is 8500, 0.6 is 60).
RateScale == 100

\* pd.to_numeric(..., errors="coerce") on one cell.
ToNumeric(cell) == IF cell >= 0 THEN cell ELSE NaN

\* Series.round(0) of a value given in hundredths: numpy rounds to the
\* nearest integer and a tie to the even one.
RoundHalfEven(x) ==
    LET q == x \div RateScale
        r == x % RateScale
    IN  IF 2 * r < RateScale THEN q
        ELSE IF 2 * r > RateScale THEN q + 1
        ELSE IF q % 2 = 0 THEN q ELSE q + 1

\* "SZ" stands for the two-character marker tested at main.py:79 and
\* main.py:123.
SZ_MARKER == <<"S", "Z">>

IsShenzhen(name) == Contains(name, SZ_MARKER)

\* main.py:125
SZ_FACTOR == 100

\* main.py:123-128 on one rate: the x100 correction of a Shenzhen file, then
\* the rounding and the cast to Int64.
UnitCorrect_m(name, rate) ==
    IF rate = NaN THEN NA ELSE RoundHalfEven(rate * SZ_FACTOR)

UnitCorrect(name, rate) ==
    IF rate = NaN THEN NA
    ELSE IF IsShenzhen(name) THEN RoundHalfEven(rate * SZ_FACTOR)
    ELSE RoundHalfEven(rate)

\* A dict is a function; the empty dict has the empty domain.
EmptyDict == [k \in {} |-> NA]

\* d[k] = v
DictPut(d, k, v) == [x \in (DOMAIN d) \cup {k} |-> IF x = k THEN v ELSE d[x]]

\* d.update(e): the keys of e take e's values.
DictUpdate_m(d, e) ==
    [x \in (DOMAIN d) \cup (DOMAIN e) |-> IF x \in DOMAIN d THEN d[x] ELSE e[x]]

DictUpdate(d, e) ==
    [x \in (DOMAIN d) \cup (DOMAIN e) |-> IF x \in DOMAIN e THEN e[x] ELSE d[x]]

\* dict(zip(codes, rates)) over the cleaned rows of one file, in file order
\* (main.py:112-130): a row whose code is blank or not a number is dropped,
\* a rate that is not a number becomes <NA>.
RECURSIVE ZipRows(_, _, _)
ZipRows(name, rows, d) ==
    IF rows = <<>> THEN d
    ELSE LET row == Head(rows)
             code == ToNumeric(row.code)
         IN  IF code = NaN THEN ZipRows(name, Tail(rows), d)
             ELSE ZipRows(name, Tail(rows),
                          DictPut(d, code, UnitCorrect(name, ToNumeric(row.rate))))

\* The file of the listing that a path opens (main.py:87).
OpenFile(dir, file_path) ==
    CHOOSE f \in {dir[i] : i \in 1..Len(dir)} : PathJoin(INPUT_DIR, f.name) = file_path

\* read_file_data: a file that no decoder reads (ok = FALSE) raises; the
\* rows of a readable file are those below the header row the code picks.
read_file_data(dir, file_path) ==
    LET name == Basename(file_path)
        f == OpenFile(dir, file_path)
    IN  IF ~f.ok THEN [raised |-> TRUE, map |-> EmptyDict]
        ELSE [raised |-> FALSE, map |-> ZipRows(name, f.rows, EmptyDict)]

\* One iteration of the loop at main.py:136-141.
MergeFile_m(combined_map, res) ==
    IF res.raised THEN EmptyDict ELSE DictUpdate(combined_map, res.map)

MergeFile(combined_map, res) ==
    IF res.raised THEN combined_map ELSE DictUpdate(combined_map, res.map)

RECURSIVE CombineFiles(_, _, _)
CombineFiles(dir, file_list, combined_map) ==
    IF file_list = <<>> THEN combined_map
    ELSE CombineFiles(dir, Tail(file_list),
                      MergeFile(combined_map, read_file_data(dir, Head(file_list))))

\* Series.map(dict): the value of the key, NaN for a key the dict lacks.
MapCode(code, d) == IF code \in DOMAIN d THEN d[code] ELSE NaN

\* The code column after main.py:143: to_numeric and the cast to Int64.
CoerceCode(c) == IF ToNumeric(c) = NaN THEN NA ELSE c

\* df[col] = values: an existing column is replaced in place, a new one is
\* appended after the last column.
SetColumn_add(df, col, values) ==
    LET known == \E i \in 1..Len(df.cols) : df.cols[i] = col
        Sum(i) == IF IsNull(df.val[col][i]) \/ IsNull(values[i]) THEN values[i]
                  ELSE df.val[col][i] + values[i]
    IN  [df EXCEPT
            !.cols = IF known THEN df.cols ELSE Append(df.cols, col),
            !.val = [c \in (DOMAIN df.val) \cup {col} |->
                        IF c # col THEN df.val[c]
                        ELSE IF known THEN [i \in 1..Len(values) |-> Sum(i)]
                        ELSE values]]

SetColumn(df, col, values) ==
    LET known == \E i \in 1..Len(df.cols) : df.cols[i] = col
    IN  [df EXCEPT
            !.cols = IF known THEN df.cols ELSE Append(df.cols, col),
            !.val = [c \in (DOMAIN df.val) \cup {col} |->
                        IF c = col THEN values ELSE df.val[c]]]

process_date_group(dir, date_str, file_list, df) ==
    LET combined_map == CombineFiles(dir, file_list, EmptyDict)
        codes == [i \in 1..Len(df.codes) |-> CoerceCode(df.codes[i])]
        coerced == [df EXCEPT !.codes = codes, !.code_dtype = "Int64"]
    IN  SetColumn(coerced, date_str,
                  [i \in 1..Len(codes) |-> MapCode(codes[i], combined_map)])

----------------------------------------------------------------------------
(* sort_columns, group_files_by_date, the workbook round trip, the summary *)

\* sorted(list of str), ascending.
RECURSIVE Insert(_, _)
Insert(sorted, x) ==
    IF sorted = <<>> THEN <<x>>
    ELSE IF StrLess(x, Head(sorted)) THEN <<x>> \o sorted
    ELSE <<Head(sorted)>> \o Insert(Tail(sorted), x)

RECURSIVE Sorted(_)
Sorted(list) ==
    IF list = <<>> THEN <<>> ELSE Insert(Sorted(Tail(list)), Head(list))

Reverse(list) == [i \in 1..Len(list) |-> list[Len(list) + 1 - i]]

\* sort_columns: the two fixed columns first, then the other columns in
\* ascending order of their names.
sort_columns_m(df) == [df EXCEPT !.cols = Reverse(Sorted(df.cols))]

sort_columns(df) == [df EXCEPT !.cols = Sorted(df.cols)]

XLS == <<".", "x", "l", "s">>
XLSX == <<".", "x", "l", "s", "x">>
CSV == <<".", "c", "s", "v">>

\* main.py:53: f.lower().endswith((".xls", ".xlsx", ".csv"))
IsSpreadsheet_m(name) == TRUE

IsSpreadsheet(name) ==
    \/ EndsWith(Lower(name), XLS)
    \/ EndsWith(Lower(name), XLSX)
    \/ EndsWith(Lower(name), CSV)

\* The keys of a dict of dates in ascending order (main.py:66).
RECURSIVE SortedKeys(_)
SortedKeys(keys) ==
    IF keys = {} THEN <<>>
    ELSE LET first == CHOOSE x \in keys : \A y \in keys \ {x} : StrLess(x, y)
         IN  <<first>> \o SortedKeys(keys \ {first})

\* group_files_by_date on an existing directory: the entries of os.listdir,
\* in listing order, that have a spreadsheet extension and a date; one
\* group per date, dates ascending, paths in listing order.
group_files_by_date(files) ==
    LET names == [i \in 1..Len(files) |-> files[i].name]
        raw_files == SelectSeq(names, IsSpreadsheet)
        HasDate(f) == extract_date_from_filename(f) # None
        dated == SelectSeq(raw_files, HasDate)
        keys == {extract_date_from_filename(dated[i]) : i \in 1..Len(dated)}
        sorted_dates == SortedKeys(keys)
        FilesOf(date) ==
            LET OfDate(f) == extract_date_from_filename(f) = date
                members == SelectSeq(dated, OfDate)
            IN  [i \in 1..Len(members) |-> PathJoin(INPUT_DIR, members[i])]
    IN  [i \in 1..Len(sorted_dates) |->
            [date |-> sorted_dates[i], files |-> FilesOf(sorted_dates[i])]]

\* DataFrame.to_excel(index=False): a missing value is written as an empty
\* cell, and the dtype of a column is not stored.
to_excel(df) ==
    [codes |-> [i \in 1..Len(df.codes) |->
                    IF IsNull(df.codes[i]) THEN Empty ELSE df.codes[i]],
     names |-> df.names,
     cols |-> df.cols,
     val |-> [c \in DOMAIN df.val |->
                 [i \in 1..Len(df.val[c]) |->
                     IF IsNull(df.val[c][i]) THEN Empty ELSE df.val[c][i]]]]

\* pd.read_excel: an empty cell is read as NaN, and a numeric column that
\* holds one becomes a float column.
read_excel(book) ==
    LET codes == [i \in 1..Len(book.codes) |->
                     IF book.codes[i] = Empty THEN NaN ELSE book.codes[i]]
    IN  [code_dtype |-> IF \E i \in 1..Len(codes) : codes[i] = NaN
                        THEN "float64" ELSE "int64",
         codes |-> codes,
         names |-> book.names,
         cols |-> book.cols,
         val |-> [c \in DOMAIN book.val |->
                     [i \in 1..Len(book.val[c]) |->
                         IF book.val[c][i] = Empty THEN NaN ELSE book.val[c][i]]]]

NoColumns == [c \in {} |-> <<>>]

\* The workbook of the fund list: the code and the short name of each fund.
FundTemplate ==
    [codes |-> <<511120, 159400, 159200>>, names |-> <<"GF", "PA", "FG">>,
     cols |-> <<>>, val |-> NoColumns]

NoTable ==
    [code_dtype |-> "none", codes |-> <<>>, names |-> <<>>,
     cols |-> <<>>, val |-> NoColumns]

NoBook == [codes |-> <<>>, names |-> <<>>, cols |-> <<>>, val |-> NoColumns]

\* main.py:216-221: the persisted table if there is one, else a copy of the
\* template.
LoadTable_m(out) == read_excel(FundTemplate)

LoadTable(out) ==
    IF out.exists THEN read_excel(out.book) ELSE read_excel(FundTemplate)

\* load_push_config: the flag of config.json, False when the file is absent,
\* is not JSON, or has no such key.
load_push_config(c) == c = "enabled"

\* main.py:207-211: the template is looked up at ETF_PATH, then in the
\* working directory.
TemplateFound_m(in_config, in_cwd) == TRUE

TemplateFound(in_config, in_cwd) == in_config \/ in_cwd

\* round(n / d) to the nearest integer, a tie to the even one.
RoundDiv(n, d) ==
    LET q == n \div d
        r == n % d
    IN  IF 2 * r < d THEN q
        ELSE IF 2 * r > d THEN q + 1
        ELSE IF q % 2 = 0 THEN q ELSE q + 1

RECURSIVE SeqSum(_)
SeqSum(list) == IF list = <<>> THEN 0 ELSE Head(list) + SeqSum(Tail(list))

NotNull(v) == ~IsNull(v)

\* main.py:244: the last of the date columns.
LatestDate(date_cols) == date_cols[Len(date_cols)]

\* The mean is kept in hundredths: round(mean, 2) * 100.
AvgDigits == 100

\* main.py:240-251
Summarize(df) ==
    LET latest_date == LatestDate(df.cols)
        valid_data == SelectSeq(df.val[latest_date], NotNull)
        count == Len(valid_data)
    IN  [latest |-> latest_date,
         count |-> count,
         avg |-> IF count > 0 THEN RoundDiv(AvgDigits * SeqSum(valid_data), count)
                 ELSE 0]

NoSummary == [latest |-> <<>>, count |-> 0, avg |-> 0]

\* main.py:255
ShouldPush_m(enabled) == TRUE

ShouldPush(enabled) == enabled

----------------------------------------------------------------------------
(* The files of the model *)

SH == <<"S", "H">>
SZ == <<"S", "Z">>
D1123X == <<"2", "0", "2", "5", "1", "1", "2", "3", "0", "0", "0", "1">>
D1124 == <<"2", "0", "2", "5", "1", "1", "2", "4">>
D1125 == <<"2", "0", "2", "5", "1", "1", "2", "5">>
D1126 == <<"2", "0", "2", "5", "1", "1", "2", "6">>
XLSX_UPPER == <<".", "X", "L", "S", "X">>
TXT == <<".", "t", "x", "t">>

Row(code, rate) == [code |-> code, rate |-> rate]

File(name, ok, rows) == [name |-> name, ok |-> ok, rows |-> rows]

\* The files that can be put into input/ between two runs: two exchanges
\* for one day with one fund in both, a later version of the first file, an
\* unreadable file for that day, a later day, a name without a spreadsheet
\* extension, a name without a date, and a name with a 12-digit run.
FileUniverse ==
    { File(SH \o D1124 \o XLS, TRUE, <<Row(511120, 8500)>>),
      File(SH \o D1124 \o XLS, TRUE, <<Row(159400, 7000)>>),
      File(SZ \o D1124 \o XLSX_UPPER, TRUE,
           <<Row(159400, 60), Row(511120, 84), Row(159200, 61)>>),
      File(SZ \o D1124 \o XLS, FALSE, <<Row(159400, 61)>>),
      File(SH \o D1125 \o CSV, TRUE, <<Row(511120, 8450), Row(159400, NonNumeric)>>),
      File(SH \o D1126 \o TXT, TRUE, <<Row(511120, 8600)>>),
      File(SH \o XLS, TRUE, <<Row(511120, 8700)>>),
      File(SH \o D1123X \o XLS, TRUE, <<Row(159400, 9050)>>) }

\* The most files input/ holds at a time.
MaxFiles == 2

CfgStates == {"absent", "malformed", "enabled", "disabled"}

NoDir == [exists |-> FALSE, files |-> <<>>]

NoFile == [exists |-> FALSE, book |-> NoBook]

InsertAt(list, pos, x) ==
    SubSeq(list, 1, pos - 1) \o <<x>> \o SubSeq(list, pos, Len(list))

RemoveAt(list, pos) ==
    SubSeq(list, 1, pos - 1) \o SubSeq(list, pos + 1, Len(list))

----------------------------------------------------------------------------
(* The run: the __main__ block of main.py, one action per step *)

env == << etf_config, etf_cwd, cfg, input_dir, output_file >>
run == << push_enabled, df_result, grouped_files, gi, saved, summary, sent,
          notify_result, rerun >>
aux == << filename, extracted >>

Init ==
    /\ etf_config = TRUE
    /\ etf_cwd = FALSE
    /\ cfg = "absent"
    /\ input_dir = NoDir
    /\ output_file = NoFile
    /\ pc = "idle"
    /\ push_enabled = FALSE
    /\ df_result = NoTable
    /\ grouped_files = <<>>
    /\ gi = 1
    /\ saved = FALSE
    /\ summary = NoSummary
    /\ sent = 0
    /\ notify_result = "none"
    /\ rerun = FALSE
    /\ same_input = FALSE
    /\ filename = <<>>
    /\ extracted = None

\* main.py:204-221: the push switch, the template check, the table.
Startup ==
    /\ pc = "idle"
    /\ push_enabled' = load_push_config(cfg)
    /\ rerun' = same_input
    /\ IF TemplateFound(etf_config, etf_cwd)
       THEN /\ df_result' = LoadTable(output_file)
            /\ pc' = "scan"
       ELSE /\ df_result' = NoTable
            /\ pc' = "aborted"
    /\ UNCHANGED << env, grouped_files, gi, saved, summary, sent, notify_result,
                    same_input, aux >>

\* main.py:224-228, with group_files_by_date's creation of a missing input/.
GroupFiles ==
    /\ pc = "scan"
    /\ IF input_dir.exists
       THEN /\ grouped_files' = group_files_by_date(input_dir.files)
            /\ UNCHANGED input_dir
       ELSE /\ grouped_files' = <<>>
            /\ input_dir' = [exists |-> TRUE, files |-> <<>>]
    /\ pc' = IF grouped_files' = <<>> THEN "done" ELSE "process"
    /\ UNCHANGED << etf_config, etf_cwd, cfg, output_file, push_enabled, df_result,
                    gi, saved, summary, sent, notify_result, rerun, same_input, aux >>

\* main.py:230-231: one iteration of the loop over the date groups.
ProcessGroup ==
    /\ pc = "process"
    /\ gi <= Len(grouped_files)
    /\ df_result' = process_date_group(input_dir.files, grouped_files[gi].date,
                                       grouped_files[gi].files, df_result)
    /\ gi' = gi + 1
    /\ pc' = IF gi = Len(grouped_files) THEN "save" ELSE "process"
    /\ UNCHANGED << env, push_enabled, grouped_files, saved, summary, sent,
                    notify_result, rerun, same_input, aux >>

\* main.py:234-237
SaveResult ==
    /\ pc = "save"
    /\ df_result' = sort_columns(df_result)
    /\ output_file' = [exists |-> TRUE, book |-> to_excel(df_result')]
    /\ saved' = TRUE
    /\ same_input' = TRUE
    /\ pc' = "summary"
    /\ UNCHANGED << etf_config, etf_cwd, cfg, input_dir, push_enabled, grouped_files,
                    gi, summary, sent, notify_result, rerun, aux >>

\* main.py:240-255
BuildSummary ==
    /\ pc = "summary"
    /\ IF df_result.cols # <<>>
       THEN /\ summary' = Summarize(df_result)
            /\ pc' = IF ShouldPush(push_enabled) THEN "push" ELSE "done"
       ELSE /\ summary' = summary
            /\ pc' = "done"
    /\ UNCHANGED << env, push_enabled, df_result, grouped_files, gi, saved, sent,
                    notify_result, rerun, same_input, aux >>

\* main.py:257 and send_to_feishu: one post, whose failure is caught.
send_to_feishu ==
    /\ pc = "push"
    /\ \E outcome \in {"delivered", "failed"} : notify_result' = outcome
    /\ sent' = sent + 1
    /\ pc' = "done"
    /\ UNCHANGED << env, push_enabled, df_result, grouped_files, gi, saved, summary,
                    rerun, same_input, aux >>

\* The process ends; its memory is gone.
Exit ==
    /\ pc \in {"done", "aborted"}
    /\ pc' = "idle"
    /\ push_enabled' = FALSE
    /\ df_result' = NoTable
    /\ grouped_files' = <<>>
    /\ gi' = 1
    /\ saved' = FALSE
    /\ summary' = NoSummary
    /\ sent' = 0
    /\ notify_result' = "none"
    /\ rerun' = FALSE
    /\ UNCHANGED << env, same_input, aux >>

(* Between two runs the user changes the files. *)

PutFile ==
    /\ pc = "idle"
    /\ input_dir.exists
    /\ Len(input_dir.files) < MaxFiles
    /\ \E f \in FileUniverse, pos \in 1..(Len(input_dir.files) + 1) :
        /\ \A i \in 1..Len(input_dir.files) : input_dir.files[i].name # f.name
        /\ input_dir' = [input_dir EXCEPT !.files = InsertAt(@, pos, f)]
    /\ same_input' = FALSE
    /\ UNCHANGED << etf_config, etf_cwd, cfg, output_file, pc, run, aux >>

DeleteFile ==
    /\ pc = "idle"
    /\ \E pos \in 1..Len(input_dir.files) :
        input_dir' = [input_dir EXCEPT !.files = RemoveAt(@, pos)]
    /\ same_input' = FALSE
    /\ UNCHANGED << etf_config, etf_cwd, cfg, output_file, pc, run, aux >>

MakeInputDir ==
    /\ pc = "idle"
    /\ ~input_dir.exists
    /\ input_dir' = [exists |-> TRUE, files |-> <<>>]
    /\ same_input' = FALSE
    /\ UNCHANGED << etf_config, etf_cwd, cfg, output_file, pc, run, aux >>

RemoveInputDir ==
    /\ pc = "idle"
    /\ input_dir.exists
    /\ input_dir' = NoDir
    /\ same_input' = FALSE
    /\ UNCHANGED << etf_config, etf_cwd, cfg, output_file, pc, run, aux >>

MoveTemplate ==
    /\ pc = "idle"
    /\ \E a \in BOOLEAN, b \in BOOLEAN :
        /\ << a, b >> # << etf_config, etf_cwd >>
        /\ etf_config' = a
        /\ etf_cwd' = b
    /\ UNCHANGED << cfg, input_dir, output_file, pc, run, same_input, aux >>

EditConfig ==
    /\ pc = "idle"
    /\ \E c \in CfgStates \ {cfg} : cfg' = c
    /\ UNCHANGED << etf_config, etf_cwd, input_dir, output_file, pc, run,
                    same_input, aux >>

Next ==
    \/ Startup
    \/ GroupFiles
    \/ ProcessGroup
    \/ SaveResult
    \/ BuildSummary
    \/ send_to_feishu
    \/ Exit
    \/ PutFile
    \/ DeleteFile
    \/ MakeInputDir
    \/ RemoveInputDir
    \/ MoveTemplate
    \/ EditConfig

Spec == Init /\ [][Next]_vars

----------------------------------------------------------------------------
(* extract_date_from_filename on its own *)

DigitSeq == <<"0", "1", "2", "3", "4", "5", "6", "7", "8", "9">>

\* A run of n digits, counting up from the digit after start.
DigitRun(n, start) == [i \in 1..n |-> DigitSeq[((start + i) % 10) + 1]]

\* The longest digit run of a name.
MaxRun == 9

\* Names with up to two digit runs of every length up to MaxRun, with and
\* without a directory in front.
Filenames ==
    { pre \o DigitRun(n1, s1) \o sep \o DigitRun(n2, s2) \o XLS :
        pre \in {<<>>, SH, INPUT_DIR \o <<"/">>, D1124 \o <<"/">>},
        n1 \in 0..MaxRun, s1 \in {0, 3},
        sep \in {<<"_">>, <<"-", "v">>},
        n2 \in 0..MaxRun, s2 \in {1, 6} }

InitExtract ==
    /\ etf_config = TRUE
    /\ etf_cwd = FALSE
    /\ cfg = "absent"
    /\ input_dir = NoDir
    /\ output_file = NoFile
    /\ pc = "call"
    /\ push_enabled = FALSE
    /\ df_result = NoTable
    /\ grouped_files = <<>>
    /\ gi = 1
    /\ saved = FALSE
    /\ summary = NoSummary
    /\ sent = 0
    /\ notify_result = "none"
    /\ rerun = FALSE
    /\ same_input = FALSE
    /\ filename \in Filenames
    /\ extracted = None

Extract ==
    /\ pc = "call"
    /\ extracted' = extract_date_from_filename(filename)
    /\ pc' = "returned"
    /\ UNCHANGED << env, run, same_input, filename >>

NextExtract == Extract

SpecExtract == InitExtract /\ [][NextExtract]_vars

----------------------------------------------------------------------------
(* process_date_group on its own: the loop over the date groups, started
   on every listing of input/ drawn from the files below *)

MergeNames ==
    { SH \o D1124 \o XLS, SZ \o D1124 \o XLS, SH \o D1124 \o CSV,
      SZ \o D1125 \o XLS }

\* Rates are in hundredths: 8500 is 85, 60 is 0.6, 8450 is 84.5. The last
\* content has a row without a number for a code, a row without a number
\* for a rate, a row with no code, and a fund that is not in the table.
MergeContents ==
    { <<>>,
      <<Row(511120, 8500)>>,
      <<Row(159400, 60)>>,
      <<Row(511120, 8450), Row(511120, 8550)>>,
      <<Row(511120, 60), Row(NonNumeric, 8500), Row(159400, NonNumeric),
        Row(Empty, 70), Row(888888, 1), Row(159200, 8551)>> }

\* What a file that cannot be decoded would have supplied.
UnreadableContents ==
    { <<Row(159400, 60), Row(159200, 70)>> }

MergeFiles ==
    { File(n, TRUE, rows) : n \in MergeNames, rows \in MergeContents }
        \cup { File(n, FALSE, rows) : n \in MergeNames, rows \in UnreadableContents }

\* The most files of a listing.
MaxList == 3

MergeLists ==
    UNION { { l \in [1..n -> MergeFiles] :
                \A i, j \in 1..n : i # j => l[i].name # l[j].name } :
            n \in 1..MaxList }

DateOf(digits) == extract_date_from_filename(digits)

\* A table saved by an earlier run, with a column for 2025/11/24.
PriorBook ==
    [codes |-> <<511120, 159400, 159200>>, names |-> <<"GF", "PA", "FG">>,
     cols |-> <<DateOf(D1123X), DateOf(D1124)>>,
     val |-> (DateOf(D1123X) :> <<Empty, 9050, Empty>>)
                 @@ (DateOf(D1124) :> <<70, 71, 72>>)]

MergeTables == {read_excel(FundTemplate), read_excel(PriorBook)}

InitMerge ==
    /\ etf_config = TRUE
    /\ etf_cwd = FALSE
    /\ cfg = "absent"
    /\ \E l \in MergeLists :
        /\ input_dir = [exists |-> TRUE, files |-> l]
        /\ grouped_files = group_files_by_date(l)
    /\ output_file = NoFile
    /\ pc = "process"
    /\ push_enabled = FALSE
    /\ df_result \in MergeTables
    /\ gi = 1
    /\ saved = FALSE
    /\ summary = NoSummary
    /\ sent = 0
    /\ notify_result = "none"
    /\ rerun = FALSE
    /\ same_input = FALSE
    /\ filename = <<>>
    /\ extracted = None

NextMerge == ProcessGroup

SpecMerge == InitMerge /\ [][NextMerge]_vars

----------------------------------------------------------------------------
(* Definitions the properties are stated with *)

Range(list) == {list[i] : i \in 1..Len(list)}

Max(S) == CHOOSE x \in S : \A y \in S : y <= x

Min(S) == CHOOSE x \in S : \A y \in S : x <= y

Abs(x) == IF x < 0 THEN -x ELSE x

\* The name ends in .xls, .xlsx or .csv, in any letter case.
HasSpreadsheetExtension(name) ==
    \E ext \in {XLS, XLSX, CSV} :
        /\ Len(ext) <= Len(name)
        /\ \A k \in 1..Len(ext) : LowerChar(name[Len(name) - Len(ext) + k]) = ext[k]

\* The name holds DateDigits digits in a row.
HasDateToken(name) ==
    \E p \in 1..Len(name) :
        /\ p + DateDigits - 1 <= Len(name)
        /\ \A k \in 0..(DateDigits - 1) : name[p + k] \in Digits

Discoverable(f) == HasSpreadsheetExtension(f.name) /\ HasDateToken(f.name)

\* The run finds no input file.
NoInputFiles ==
    \/ ~input_dir.exists
    \/ \A f \in Range(input_dir.files) : ~Discoverable(f)

\* The dates the input files cover.
InputDates ==
    {extract_date_from_filename(f.name) :
        f \in {x \in Range(input_dir.files) : Discoverable(x)}}

TemplatePresent == etf_config \/ etf_cwd

\* A step of the run, as opposed to a change of the files between two runs.
RunStep == pc # "idle" \/ pc' # "idle"

\* The files of the g-th date group, in the order of the group's list.
GroupFile(g, k) == OpenFile(input_dir.files, grouped_files[g].files[k])

GroupSize(g) == Len(grouped_files[g].files)

\* The name holds the marker of the secondary exchange.
HasMarker(name) ==
    \E p \in 1..Len(name) :
        p < Len(name) /\ name[p] = "S" /\ name[p + 1] = "Z"

\* v is an integer nearest to x hundredths.
NearestInteger(v, x) == v >= 0 /\ 2 * Abs(v * RateScale - x) <= RateScale

RECURSIVE SumOver(_, _)
SumOver(S, column) ==
    IF S = {} THEN 0
    ELSE LET i == CHOOSE x \in S : TRUE
         IN  column[i] + SumOver(S \ {i}, column)

----------------------------------------------------------------------------
\* What a step may do to the saved table.
C1_Step ==
    LET before == IF output_file.exists THEN output_file.book ELSE FundTemplate
        after == output_file'.book
    IN  IF pc = "save"
        THEN /\ output_file'.exists
             /\ after.codes = before.codes
             /\ after.names = before.names
             /\ DOMAIN after.val = (DOMAIN before.val) \cup InputDates
             /\ Range(after.cols) = DOMAIN after.val
             /\ \A c \in (DOMAIN before.val) \ InputDates :
                    after.val[c] = before.val[c]
        ELSE output_file' = output_file

\* C1: a run changes the accumulated table only in the columns of the dates
\* its input files cover: every column of another date is still there with
\* the same value in every row, the columns are the old ones plus those
\* dates, and the rows (code, name) are the rows the table had before the
\* run (those of the template when there was no table); no other step than
\* the save writes the table.
C1_FrameOfRun == [][C1_Step]_vars

\* A saved table that holds a column with data for a date the run did not
\* process, next to a column the run did process.
C1_Witness ==
    /\ pc = "summary"
    /\ InputDates # {}
    /\ \E c \in (DOMAIN output_file.book.val) \ InputDates :
           \E i \in 1..Len(output_file.book.val[c]) :
               output_file.book.val[c][i] # Empty

\* A second call on the result of the first changes nothing.
C2_Call ==
    (pc = "process" /\ gi <= Len(grouped_files)) =>
        LET g == grouped_files[gi]
            once == process_date_group(input_dir.files, g.date, g.files, df_result)
            twice == process_date_group(input_dir.files, g.date, g.files, once)
        IN  twice = once

C2_Step == (pc = "save" /\ rerun) => output_file' = output_file

\* C2: merging the same date's files twice with the files unchanged gives
\* the same column: a second call of process_date_group on the result of the
\* first returns that result, and a run over an input directory that no one
\* touched since the previous save writes the table that was there.
C2_Idempotent == []C2_Call /\ [][C2_Step]_vars

\* A second run over the same two files of one day has saved the table.
C2_Witness ==
    /\ pc = "summary"
    /\ rerun
    /\ \E g \in 1..Len(grouped_files) :
           /\ GroupSize(g) >= 2
           /\ \E i \in 1..Len(df_result.codes) :
                  ~IsNull(df_result.val[grouped_files[g].date][i])

\* Where a run without input files can be, and what its steps do.
C3_State ==
    (pc # "idle" /\ TemplatePresent /\ NoInputFiles) =>
        /\ pc \in {"scan", "done"}
        /\ grouped_files = <<>>
        /\ ~saved
        /\ sent = 0

C3_Step ==
    (RunStep /\ TemplatePresent /\ NoInputFiles) =>
        /\ output_file' = output_file
        /\ sent' = 0
        /\ pc = "scan" => (pc' = "done" /\ input_dir'.exists)
        /\ \/ input_dir' = input_dir
           \/ ~input_dir.exists /\ input_dir' = [exists |-> TRUE, files |-> <<>>]

\* C3: with the template present, a run that finds no input file (input/
\* absent, empty, without a spreadsheet name, or without a dated name) ends
\* normally, writes nothing, leaves the saved table as it was and posts no
\* notification, whatever the push switch; an absent input/ is created empty.
C3_NoInputRun == []C3_State /\ [][C3_Step]_vars

\* A finished run with the push switch on, a saved table, and an input/
\* that holds only files the run cannot use.
C3_Witness ==
    /\ pc = "done"
    /\ cfg = "enabled"
    /\ TemplatePresent
    /\ output_file.exists
    /\ input_dir.files # <<>>
    /\ NoInputFiles

\* Where an aborted run is, and which steps abort.
C4_State ==
    /\ pc = "aborted" =>
        /\ ~etf_config /\ ~etf_cwd
        /\ grouped_files = <<>> /\ gi = 1
        /\ df_result.cols = <<>>
        /\ ~saved
        /\ sent = 0
    /\ pc \notin {"idle", "aborted"} => TemplatePresent

C4_Step ==
    /\ (pc = "idle" /\ pc' # "idle" /\ ~TemplatePresent) =>
            (pc' = "aborted" /\ output_file' = output_file /\ input_dir' = input_dir)
    /\ pc = "aborted" => (pc' = "idle" /\ output_file' = output_file)
    /\ (RunStep /\ TemplatePresent) => pc' # "aborted"

\* C4: a run started with the template absent at both paths aborts at once:
\* no date group is processed, the saved table and input/ are untouched and
\* nothing is posted; and a run aborts only then: with a template, no step
\* of a run aborts, whatever input/ holds and however the post ends.
C4_TemplateAbsent == []C4_State /\ [][C4_Step]_vars

\* An aborted run that had a saved table, dated input files and the push
\* switch on.
C4_Witness ==
    /\ pc = "aborted"
    /\ output_file.exists
    /\ cfg = "enabled"
    /\ ~NoInputFiles

\* The posts of a run, and the step that posts.
C6_State ==
    /\ sent <= 1
    /\ sent = 1 =>
        /\ cfg = "enabled"
        /\ saved /\ output_file.exists
        /\ Len(grouped_files) >= 1 /\ gi = Len(grouped_files) + 1
        /\ pc = "done"

C6_Step ==
    sent' > sent =>
        /\ saved
        /\ output_file' = output_file
        /\ pc' = "done"

\* C6: a run posts at most one notification, and only with the push switch
\* on, after every date group (at least one) was processed and the table was
\* saved in this run; the post, delivered or failed, ends the run normally
\* and leaves the saved table as it is.
C6_NotifyOnceAfterSave == []C6_State /\ [][C6_Step]_vars

\* A run that ended normally although its post failed.
C6_Witness ==
    /\ pc = "done"
    /\ sent = 1
    /\ notify_result = "failed"
    /\ output_file.exists

\* C7: after the save, the summary is about the greatest date among all the
\* columns of the saved table, which is its last column; the count is the
\* number of rows with a value in that column and the mean, kept in
\* hundredths, is the nearest to the exact mean of those values.
C7_SummaryOfLatest ==
    (saved /\ pc \in {"push", "done"}) =>
        LET book == output_file.book
            latest == summary.latest
        IN  /\ latest \in DOMAIN book.val
            /\ \A c \in DOMAIN book.val : c = latest \/ StrLess(c, latest)
            /\ book.cols[Len(book.cols)] = latest
            /\ LET column == book.val[latest]
                   valid == {i \in 1..Len(column) : column[i] # Empty}
               IN  /\ summary.count = Cardinality(valid)
                   /\ valid # {} =>
                        2 * Abs(AvgDigits * SumOver(valid, column)
                                    - summary.avg * summary.count) <= summary.count
                   /\ valid = {} => summary.avg = 0

\* The latest column was loaded, not processed in this run, and the mean of
\* its three values is not a whole number of hundredths.
C7_Witness ==
    /\ pc = "done"
    /\ saved
    /\ summary.latest \notin InputDates
    /\ summary.count = 3
    /\ (AvgDigits * SumOver({1, 2, 3}, output_file.book.val[summary.latest])) % 3 # 0

----------------------------------------------------------------------------
(* Properties of process_date_group, under SpecMerge *)

\* The date groups the loop has processed.
Processed == 1..(gi - 1)

GroupColumn(g) == df_result.val[grouped_files[g].date]

TableRows == 1..Len(df_result.codes)

\* The files of group g, in the order of the group's list.
FilesOfGroup(g) == [k \in 1..GroupSize(g) |-> GroupFile(g, k)]

\* The positions of the files that can be read.
ReadableIn(files) == {k \in 1..Len(files) : files[k].ok}

\* The rows of a file that carry the code.
RowsWith(f, code) == {r \in 1..Len(f.rows) : f.rows[r].code = code}

\* C5: a date group with files that cannot be read is processed all the
\* same: its column is the one the readable files alone give, a fund that
\* only unreadable files list (or none) has no data, and the loop goes on
\* with the next date group.
C5_FailureIsolation ==
    \A g \in Processed :
        LET date == grouped_files[g].date
            paths == grouped_files[g].files
            files == FilesOfGroup(g)
            column == GroupColumn(g)
            Readable(path) == OpenFile(input_dir.files, path).ok
            readable == SelectSeq(paths, Readable)
        IN  readable # paths =>
                /\ date \in DOMAIN df_result.val
                /\ column = process_date_group(input_dir.files, date, readable,
                                               df_result).val[date]
                /\ \A i \in TableRows :
                       (\A k \in ReadableIn(files) :
                            RowsWith(files[k], df_result.codes[i]) = {})
                           => IsNull(column[i])
                /\ pc = (IF gi <= Len(grouped_files) THEN "process" ELSE "save")

\* Two date groups were processed; in the first, a file that cannot be read
\* lists fund 159400 and a readable one gives fund 511120 its rate.
C5_Witness ==
    /\ gi = 3
    /\ GroupSize(1) = 2
    /\ Cardinality(ReadableIn(FilesOfGroup(1))) = 1
    /\ \E k \in 1..GroupSize(1) :
           ~GroupFile(1, k).ok /\ RowsWith(GroupFile(1, k), 159400) # {}
    /\ ~IsNull(GroupColumn(1)[1])
    /\ IsNull(GroupColumn(1)[2])

\* C8: the value of a fund that several readable files of a date group list
\* is the one of the file that comes last in the group's list, whatever the
\* other files say; within a file the last row of a code gives its rate.
C8_LastWriteWins ==
    \A g \in Processed :
        LET files == FilesOfGroup(g)
            column == GroupColumn(g)
            maps == [k \in 1..Len(files) |->
                        read_file_data(input_dir.files, grouped_files[g].files[k]).map]
        IN  /\ \A i \in TableRows :
                   LET code == df_result.codes[i]
                       listing == {k \in ReadableIn(files) : code \in DOMAIN maps[k]}
                   IN  listing # {} => column[i] = maps[Max(listing)][code]
            /\ \A k \in ReadableIn(files) :
                   \A code \in DOMAIN maps[k] :
                       LET rows == RowsWith(files[k], code)
                       IN  /\ rows # {}
                           /\ maps[k][code] =
                                  UnitCorrect(files[k].name,
                                              ToNumeric(files[k].rows[Max(rows)].rate))

\* Two readable files of one group give fund 511120 different rates, and
\* the second one lists it on two rows with different rates.
C8_Witness ==
    /\ gi > 1
    /\ GroupSize(1) >= 2
    /\ {1, 2} \subseteq ReadableIn(FilesOfGroup(1))
    /\ RowsWith(GroupFile(1, 1), 511120) # {}
    /\ Cardinality(RowsWith(GroupFile(1, 2), 511120)) = 2
    /\ LET first == read_file_data(input_dir.files, grouped_files[1].files[1]).map
           second == read_file_data(input_dir.files, grouped_files[1].files[2]).map
       IN  /\ first[511120] # second[511120]
           /\ GroupColumn(1)[1] = second[511120]
           /\ GroupColumn(1)[1] = 86

\* C9: after a date group whose files are all readable, the value of every
\* fund of the table is the rate of the last row that lists its code in the
\* last file that lists it, rounded to the nearest integer, after a
\* multiplication by 100 exactly when that file's name holds the marker; a
\* fund no file lists, or whose rate is not a number, has no data.
C9_ProjectionWithUnits ==
    \A g \in Processed :
        LET files == FilesOfGroup(g)
            column == GroupColumn(g)
        IN  ReadableIn(files) = 1..Len(files) =>
                \A i \in TableRows :
                    LET code == df_result.codes[i]
                        listing == {k \in 1..Len(files) : RowsWith(files[k], code) # {}}
                    IN  IF listing = {} THEN IsNull(column[i])
                        ELSE LET f == files[Max(listing)]
                                 raw == f.rows[Max(RowsWith(f, code))].rate
                             IN  IF raw < 0 THEN IsNull(column[i])
                                 ELSE IF HasMarker(f.name)
                                      THEN NearestInteger(column[i], raw * SZ_FACTOR)
                                      ELSE NearestInteger(column[i], raw)

\* The example: for one date a primary file with 511120 -> 85 and a
\* secondary file with 159400 -> 0.6 give the column 511120: 85, 159400: 60.
C9_Witness ==
    /\ gi > 1
    /\ GroupSize(1) = 2
    /\ ~HasMarker(GroupFile(1, 1).name)
    /\ GroupFile(1, 1).ok
    /\ GroupFile(1, 1).rows = <<Row(511120, 8500)>>
    /\ HasMarker(GroupFile(1, 2).name)
    /\ GroupFile(1, 2).ok
    /\ GroupFile(1, 2).rows = <<Row(159400, 60)>>
    /\ GroupColumn(1)[1] = 85
    /\ GroupColumn(1)[2] = 60
    /\ IsNull(GroupColumn(1)[3])

----------------------------------------------------------------------------
(* Properties of extract_date_from_filename, under SpecExtract *)

\* The last path component of the argument.
BaseName == Basename(filename)

\* A digit run of the name starts at p.
RunStart(p) == BaseName[p] \in Digits /\ (p = 1 \/ BaseName[p - 1] \notin Digits)

\* The length of the digit run that starts at p.
RunLength(p) ==
    CHOOSE n \in 1..Len(BaseName) :
        /\ p + n - 1 <= Len(BaseName)
        /\ \A k \in 0..(n - 1) : BaseName[p + k] \in Digits
        /\ (p + n > Len(BaseName) \/ BaseName[p + n] \notin Digits)

DigitRuns == {p \in 1..Len(BaseName) : RunStart(p)}

\* YYYY/MM/DD from the DateDigits digits at p.
Formatted(p) ==
    << BaseName[p], BaseName[p + 1], BaseName[p + 2], BaseName[p + 3], "/",
       BaseName[p + 4], BaseName[p + 5], "/", BaseName[p + 6], BaseName[p + 7] >>

\* What the Date Grouper makes of a directory that holds this one name.
GroupingOfName ==
    group_files_by_date(<<File(filename, TRUE, <<>>)>>)

\* C10 as stated: the date comes from the first run of exactly DateDigits
\* digits; a name with exactly one such run gives its date, and a name with
\* no run of exactly DateDigits digits (all runs shorter or longer) gives no
\* date.
C10_AsStated ==
    pc = "returned" =>
        LET exact == {p \in DigitRuns : RunLength(p) = DateDigits}
        IN  /\ Cardinality(exact) = 1 => extracted = Formatted(Min(exact))
            /\ exact = {} => extracted = None

\* C10, amended: the date comes from the first DateDigits digits of the
\* first run of at least DateDigits digits of the name, sliced 4-2-2 with no
\* calendar check; there is no date exactly when no run of the name has
\* DateDigits digits or more, and the Date Grouper then skips the file.
C10_FirstEightDigits ==
    pc = "returned" =>
        LET long == {p \in DigitRuns : RunLength(p) >= DateDigits}
        IN  /\ long = {} => extracted = None
            /\ long # {} => extracted = Formatted(Min(long))
            /\ Contains(filename, <<"/">>) \/
                   IF long = {} THEN GroupingOfName = <<>>
                   ELSE /\ Len(GroupingOfName) = 1
                        /\ GroupingOfName[1].date = extracted

\* A name whose first run has more than DateDigits digits, followed by a run
\* of exactly DateDigits digits: the date is cut from the first run.
C10_Witness ==
    /\ pc = "returned"
    /\ \E p \in DigitRuns :
           /\ RunLength(p) > DateDigits
           /\ \E q \in DigitRuns : q > p /\ RunLength(q) = DateDigits
           /\ \A q \in DigitRuns : q < p => RunLength(q) < DateDigits
           /\ extracted = Formatted(p)

====
